---- MODULE Spec2Model ----
(***************************************************************************)
(* Micro Terminal Manager (src/micro_terminal.py): named tmux sessions     *)
(* carrying the namespace tag "aitx-micro-", their create / destroy /      *)
(* send / attach / list operations, and the interactive dispatcher.        *)
(*                                                                         *)
(* Strings are sequences of one-character strings.  The tmux server is the *)
(* set of its session names; what a tmux subcommand does with a target or  *)
(* a new name follows tmux(1): a target-session is an exact session name   *)
(* or else the start of exactly one session name, new-session refuses a    *)
(* name that is taken, and an empty server is no server at all.            *)
(***************************************************************************)
EXTENDS Integers, Sequences, FiniteSets, TLC

VARIABLES
    server,      \* session names on the tmux server
    installed,   \* binaries found on the executable search path
    last,        \* the last operation: its arguments, result and external calls
    script,      \* SpecScript: the calls still to make
    results,     \* SpecScript: the results so far
    server0,     \* SpecScript: the server before the first call
    rpc,         \* SpecRace: each manager's position in create
    rres,        \* SpecRace: each manager's result
    rname,       \* SpecRace: the name both managers create
    pc,          \* SpecUI: the dispatcher's position
    term_name,   \* SpecUI: the name the nested prompt is about
    ret,         \* SpecUI: the dispatcher's return value
    ctl,         \* SpecUI: the last input and the operations invoked for it
    ui_terminal_path,  \* SpecUI: the dispatcher's visual_terminal_path argument
    proc,        \* SpecHang: the operation in progress and its external invocations
    addr         \* SpecNames: two names, their identifiers and what list makes of them

vars == <<server, installed, last, script, results, server0,
          rpc, rres, rname, pc, term_name, ret, ctl, ui_terminal_path, proc, addr>>

(***************************************************************************)
(* Bounds and input sets                                                   *)
(***************************************************************************)
MaxSessions == 2

NL == "\n"
SP == " "

MICRO_TERM_PREFIX == <<"a","i","t","x","-","m","i","c","r","o","-">>

VM_LOCAL == <<"l","o","c","a","l">>
VM_DOCKER == <<"d","o","c","k","e","r">>
VM_SSH == <<"s","s","h">>

VM_TYPES == {VM_LOCAL, VM_DOCKER, VM_SSH}

\* Names given to the operations: "a" is the start of "ab".
Names == {<<"a">>, <<"a","b">>}

\* Sessions other tmux clients own: one plain, one whose name starts with a
\* space followed by the tag.
Foreign == {<<"m">>, <<SP>> \o MICRO_TERM_PREFIX \o <<"a">>}

Idents == {MICRO_TERM_PREFIX \o n : n \in Names} \cup Foreign

VmTypes == VM_TYPES \cup {<<"v","m">>}
Targets == {<< >>, <<"c","1">>}
Tools == {"tmux", "docker", "ssh"}
Commands == {<<"l","s">>}
TermPaths == {<< >>, <<"x","t">>}

\* How one external invocation ends: it runs, it raises (TimeoutExpired,
\* OSError), or tmux exits non-zero for a reason of its own.
Faults == {"none", "timeout", "error"}

NoSession == << >>
NoList == << >>

(***************************************************************************)
(* Python string operations                                                *)
(***************************************************************************)
Min(S) == CHOOSE x \in S : \A y \in S : x <= y
Max(S) == CHOOSE x \in S : \A y \in S : x >= y

StartsWith(s, p) == Len(s) >= Len(p) /\ SubSeq(s, 1, Len(p)) = p

DropPrefix(s, k) == SubSeq(s, k + 1, Len(s))

IsSpace(c) == c \in {SP, NL}

Strip(s) ==
    LET keep == {i \in 1..Len(s) : ~IsSpace(s[i])}
    IN  IF keep = {} THEN << >> ELSE SubSeq(s, Min(keep), Max(keep))

RECURSIVE SplitLines(_)
SplitLines(s) ==
    IF s = << >> THEN << >>
    ELSE LET nl == {i \in 1..Len(s) : s[i] = NL}
         IN  IF nl = {} THEN <<s>>
             ELSE <<SubSeq(s, 1, Min(nl) - 1)>>
                      \o SplitLines(SubSeq(s, Min(nl) + 1, Len(s)))

RECURSIVE SelectNames(_)
SelectNames(ls) ==
    IF ls = << >> THEN << >>
    ELSE IF StartsWith(Head(ls), MICRO_TERM_PREFIX)
         THEN <<DropPrefix(Head(ls), Len(MICRO_TERM_PREFIX))>> \o SelectNames(Tail(ls))
         ELSE SelectNames(Tail(ls))

ParseSessions(stdout) == SelectNames(SplitLines(Strip(stdout)))

SessionName(name) == MICRO_TERM_PREFIX \o name

PaneTarget(session_name) == session_name \o <<":", "0", ".", "0">>

(***************************************************************************)
(* tmux                                                                    *)
(***************************************************************************)
RECURSIVE Stdout(_)
Stdout(reply) ==
    IF reply = << >> THEN << >> ELSE Head(reply) \o <<NL>> \o Stdout(Tail(reply))

Range(f) == {f[i] : i \in DOMAIN f}

\* The orders in which list-sessions may print the sessions.
Replies(srv) ==
    {r \in [1..Cardinality(srv) -> srv] : Range(r) = srv}

TmuxTarget(srv, t) ==
    IF t \in srv THEN {t}
    ELSE LET m == {s \in srv : StartsWith(s, t)}
         IN  IF Cardinality(m) = 1 THEN m ELSE {}

\* The session part of a target-pane "session:window.pane".
PaneSession(t) ==
    LET c == {i \in 1..Len(t) : t[i] = ":"}
    IN  IF c = {} THEN t ELSE SubSeq(t, 1, Min(c) - 1)

\* The diagnostic of a command whose target names no session.
TmuxDiags(srv) ==
    IF srv = {} THEN {"no server running"}
    ELSE {"session not found", "can't find session"}

HasSessionRc(srv, t) == IF TmuxTarget(srv, t) = {} THEN 1 ELSE 0

NewSessionRc(srv, s) == IF s \in srv THEN 1 ELSE 0

(***************************************************************************)
(* Tool locator and lifecycle controller                                   *)
(***************************************************************************)
\* What an operation returns and does: its success flag, the kind of its
\* message, the session name it returns, the server afterwards, the external
\* invocations it made, the sessions tmux acted on, and list's names.
Ret(ok, kind, session, srv, calls, hit) ==
    [ok |-> ok, kind |-> kind, session |-> session, server |-> srv,
     calls |-> calls, hit |-> hit]

which(path, tool) == tool \in path

_get_tmux_path(path) == which(path, "tmux")

_get_docker_path(path) == which(path, "docker")

_get_ssh_path(path) == which(path, "ssh")

_session_exists_Stale(srv, session_name, fault) ==
    IF fault = "timeout" THEN HasSessionRc(srv, session_name) = 0
    ELSE IF fault = "error" THEN FALSE
    ELSE HasSessionRc(srv, session_name) = 0

_session_exists(srv, session_name, fault) ==
    IF fault = "timeout" THEN FALSE
    ELSE IF fault = "error" THEN FALSE
    ELSE HasSessionRc(srv, session_name) = 0

\* The names list_micro_terminals returns when list-sessions prints `reply`.
list_micro_terminals(srv, path, reply, fault) ==
    IF ~_get_tmux_path(path) THEN NoList
    ELSE IF fault = "timeout" THEN NoList
    ELSE IF fault = "error" \/ srv = {} THEN NoList
    ELSE ParseSessions(Stdout(reply))

\* The message a failed kill-session or send-keys is given: its diagnostic
\* names a missing session or a missing server, or it does not.
NotFoundText(err) == err \in {"session not found", "no server running"}

\* The start command of create_micro_terminal: "go" when it is built, or the
\* kind of the failure returned instead.
BuildStartCommand_TargetDefaulted(path, vm_type, vm_target) ==
    IF vm_type = VM_DOCKER /\ ~_get_docker_path(path) THEN "ToolMissing"
    ELSE IF vm_type = VM_SSH /\ ~_get_ssh_path(path) THEN "ToolMissing"
    ELSE "go"

BuildStartCommand_ToolAssumed(path, vm_type, vm_target) ==
    IF vm_type \in {VM_DOCKER, VM_SSH} /\ vm_target = << >> THEN "MissingTarget"
    ELSE "go"

BuildStartCommand(path, vm_type, vm_target) ==
    IF vm_type = VM_DOCKER
    THEN IF vm_target = << >> THEN "MissingTarget"
         ELSE IF ~_get_docker_path(path) THEN "ToolMissing"
         ELSE "go"
    ELSE IF vm_type = VM_SSH
    THEN IF vm_target = << >> THEN "MissingTarget"
         ELSE IF ~_get_ssh_path(path) THEN "ToolMissing"
         ELSE "go"
    ELSE "go"

CreatePrepare_BuilderFirst(srv, path, name, vm_type, vm_target, fault) ==
    IF ~_get_tmux_path(path)
    THEN Ret(FALSE, "ToolMissing", NoSession, srv, << >>, {})
    ELSE IF vm_type \notin VM_TYPES
    THEN Ret(FALSE, "UnsupportedBackend", NoSession, srv, << >>, {})
    ELSE LET built == BuildStartCommand(path, vm_type, vm_target)
         IN  IF built # "go"
             THEN Ret(FALSE, built, NoSession, srv, << >>, {})
             ELSE IF _session_exists(srv, SessionName(name), fault)
             THEN Ret(FALSE, "AlreadyExists", SessionName(name), srv,
                      <<"has-session">>, {})
             ELSE Ret(TRUE, "go", SessionName(name), srv, <<"has-session">>, {})

\* create_micro_terminal up to its start command: the result it returns
\* early, or kind "go" when it goes on to new-session.
CreatePrepare(srv, path, name, vm_type, vm_target, fault) ==
    IF ~_get_tmux_path(path)
    THEN Ret(FALSE, "ToolMissing", NoSession, srv, << >>, {})
    ELSE IF vm_type \notin VM_TYPES
    THEN Ret(FALSE, "UnsupportedBackend", NoSession, srv, << >>, {})
    ELSE IF _session_exists(srv, SessionName(name), fault)
    THEN Ret(FALSE, "AlreadyExists", SessionName(name), srv, <<"has-session">>, {})
    ELSE LET built == BuildStartCommand(path, vm_type, vm_target)
         IN  IF built # "go"
             THEN Ret(FALSE, built, NoSession, srv, <<"has-session">>, {})
             ELSE Ret(TRUE, "go", SessionName(name), srv, <<"has-session">>, {})

CreateNewSession_Untagged(srv, name, fault) ==
    LET calls == <<"has-session", "new-session">>
    IN  IF fault = "timeout"
        THEN Ret(FALSE, "Unexpected", NoSession, srv, calls, {})
        ELSE IF fault = "error" \/ NewSessionRc(srv, name) # 0
        THEN Ret(FALSE, "CreateFailed", NoSession, srv, calls, {})
        ELSE Ret(TRUE, "Created", name, srv \cup {name}, calls, {name})

CreateNewSession_Unchecked(srv, name, fault) ==
    LET session_name == SessionName(name)
        calls == <<"has-session", "new-session">>
    IN  IF fault = "timeout"
        THEN Ret(FALSE, "Unexpected", NoSession, srv, calls, {})
        ELSE Ret(TRUE, "Created", session_name, srv \cup {session_name}, calls,
                 {session_name})

\* The new-session invocation of create_micro_terminal and what it returns.
CreateNewSession(srv, name, fault) ==
    LET session_name == SessionName(name)
        calls == <<"has-session", "new-session">>
    IN  IF fault = "timeout"
        THEN Ret(FALSE, "Unexpected", NoSession, srv, calls, {})
        ELSE IF fault = "error" \/ NewSessionRc(srv, session_name) # 0
        THEN Ret(FALSE, "CreateFailed", NoSession, srv, calls, {})
        ELSE Ret(TRUE, "Created", session_name, srv \cup {session_name}, calls,
                 {session_name})

create_micro_terminal(srv, path, name, vm_type, vm_target, f1, f2) ==
    LET pre == CreatePrepare(srv, path, name, vm_type, vm_target, f1)
    IN  IF pre.kind # "go" THEN pre ELSE CreateNewSession(srv, name, f2)

destroy_micro_terminal(srv, path, name, fault, diag) ==
    LET session_name == SessionName(name)
        hit == TmuxTarget(srv, session_name)
        calls == <<"kill-session">>
    IN  IF ~_get_tmux_path(path)
        THEN Ret(FALSE, "ToolMissing", NoSession, srv, << >>, {})
        ELSE IF fault = "timeout"
        THEN Ret(FALSE, "Unexpected", NoSession, srv, calls, {})
        ELSE IF fault = "error"
        THEN Ret(FALSE, "DestroyFailed", NoSession, srv, calls, {})
        ELSE IF hit # {}
        THEN Ret(TRUE, "Destroyed", NoSession, srv \ hit, calls, hit)
        ELSE IF NotFoundText(diag)
        THEN Ret(FALSE, "NotFound", NoSession, srv, calls, {})
        ELSE Ret(FALSE, "DestroyFailed", NoSession, srv, calls, {})

send_to_micro_terminal(srv, path, name, command, fault, diag) ==
    LET session_name == SessionName(name)
        hit == TmuxTarget(srv, PaneSession(PaneTarget(session_name)))
        calls == <<"send-keys">>
    IN  IF ~_get_tmux_path(path)
        THEN Ret(FALSE, "ToolMissing", NoSession, srv, << >>, {})
        ELSE IF fault = "timeout"
        THEN Ret(FALSE, "Unexpected", NoSession, srv, calls, {})
        ELSE IF fault = "error"
        THEN Ret(FALSE, "SendFailed", NoSession, srv, calls, {})
        ELSE IF hit # {}
        THEN Ret(TRUE, "Sent", NoSession, srv, calls, hit)
        ELSE IF NotFoundText(diag)
        THEN Ret(FALSE, "NotFound", NoSession, srv, calls, {})
        ELSE Ret(FALSE, "SendFailed", NoSession, srv, calls, {})

\* launch: how Popen of the visual terminal ends ("ok", "enoent", "oserror").
attach_micro_terminal(srv, path, name, visual_terminal_path, fault, launch) ==
    LET session_name == SessionName(name)
    IN  IF ~_get_tmux_path(path)
        THEN Ret(FALSE, "ToolMissing", NoSession, srv, << >>, {})
        ELSE IF visual_terminal_path = << >>
        THEN Ret(FALSE, "NoTerminalConfigured", NoSession, srv, << >>, {})
        ELSE IF ~_session_exists(srv, session_name, fault)
        THEN Ret(FALSE, "NotFound", NoSession, srv, <<"has-session">>, {})
        ELSE IF launch = "ok"
        THEN Ret(TRUE, "Opened", NoSession, srv, <<"has-session", "popen">>,
                 TmuxTarget(srv, session_name))
        ELSE Ret(FALSE, "LaunchFailed", NoSession, srv, <<"has-session", "popen">>, {})

Launches == {"ok", "enoent", "oserror"}

(***************************************************************************)
(* Spec: one manager calling the operations, other tmux clients creating   *)
(* and ending sessions in between.                                         *)
(***************************************************************************)
scriptVars == <<script, results, server0, addr>>
raceVars == <<rpc, rres, rname>>
uiVars == <<pc, term_name, ret, ctl, ui_terminal_path, proc>>

Managers == {1, 2}

NoCall == [op |-> "none", name |-> << >>, vm_type |-> << >>, vm_target |-> << >>,
           arg |-> << >>]

Call(op, name, vm_type, vm_target, arg) ==
    [op |-> op, name |-> name, vm_type |-> vm_type, vm_target |-> vm_target,
     arg |-> arg]

\* The record of one operation: the call, the server before and after it,
\* what it returned, the lines list-sessions printed, the names list
\* returned, and how its external invocations ended when they did not run.
Done(call, pre, r, reply, out, faults) ==
    [call |-> call, pre |-> pre, post |-> r.server, ok |-> r.ok, kind |-> r.kind,
     session |-> r.session, calls |-> r.calls, hit |-> r.hit,
     reply |-> reply, out |-> out, faults |-> faults]

NoRet == Ret(FALSE, "none", NoSession, {}, << >>, {})

NoDone == Done(NoCall, {}, NoRet, << >>, NoList, {})

\* No name addressed yet.
NoAddr == [applied |-> FALSE, n |-> << >>, m |-> << >>, idn |-> << >>, idm |-> << >>,
           back |-> << >>, reply |-> << >>, listed |-> << >>]

ScriptIdle == script = << >> /\ results = << >> /\ server0 = {} /\ addr = NoAddr
RaceIdle == rpc = [p \in Managers |-> "idle"] /\ rres = [p \in Managers |-> NoRet]
                /\ rname = << >>
NoCtl == [at |-> "none", input |-> << >>, interrupted |-> FALSE, ops |-> << >>,
          usage |-> FALSE, name |-> << >>, done |-> NoDone, pre |-> {}]

\* No operation in progress.
NoProc == [d |-> NoDone, fs |-> << >>, i |-> 0, elapsed |-> 0, then |-> "none"]

UIIdle == /\ pc = "idle" /\ term_name = << >> /\ ret = "none" /\ ctl = NoCtl
          /\ ui_terminal_path = << >> /\ proc = NoProc

Init ==
    /\ server = {}
    /\ installed \in SUBSET Tools
    /\ last = NoDone
    /\ ScriptIdle /\ RaceIdle /\ UIIdle

Frame == UNCHANGED <<installed, scriptVars, raceVars, uiVars>>

\* The ways an external invocation can end, when the operation reaches it.
FaultsIf(reached) == IF reached THEN Faults ELSE {"none"}

Met(f) == {f} \ {"none"}

\* Every way a call can go on server `srv` with the binaries `path`: one
\* record for each way its external invocations can end.
CreateOutcomes(srv, path, name, vm_type, vm_target) ==
    UNION {
      {Done(Call("create", name, vm_type, vm_target, << >>), srv,
            create_micro_terminal(srv, path, name, vm_type, vm_target, f1, f2),
            << >>, NoList, Met(f1) \cup Met(f2))
         : f2 \in FaultsIf(CreatePrepare(srv, path, name, vm_type,
                                         vm_target, f1).kind = "go")}
      : f1 \in FaultsIf(_get_tmux_path(path) /\ vm_type \in VM_TYPES)}

DestroyOutcomes(srv, path, name) ==
    UNION {
      {Done(Call("destroy", name, << >>, << >>, << >>), srv,
            destroy_micro_terminal(srv, path, name, f, diag),
            << >>, NoList, Met(f))
         : diag \in IF f = "none" THEN TmuxDiags(srv) ELSE {"none"}}
      : f \in FaultsIf(_get_tmux_path(path))}

SendOutcomes(srv, path, name, command) ==
    UNION {
      {Done(Call("send", name, << >>, << >>, command), srv,
            send_to_micro_terminal(srv, path, name, command, f, diag),
            << >>, NoList, Met(f))
         : diag \in IF f = "none" THEN TmuxDiags(srv) ELSE {"none"}}
      : f \in FaultsIf(_get_tmux_path(path))}

AttachOutcomes(srv, path, name, visual_terminal_path) ==
    UNION {
      {Done(Call("attach", name, << >>, << >>, visual_terminal_path), srv,
            attach_micro_terminal(srv, path, name, visual_terminal_path, f, launch),
            << >>, NoList, Met(f))
         : launch \in IF f = "none" THEN Launches ELSE {"ok"}}
      : f \in FaultsIf(_get_tmux_path(path) /\ visual_terminal_path # << >>)}

\* _session_exists, called with a tmux that was found.
ExistsOutcomes(srv, name) ==
    {Done(Call("exists", name, << >>, << >>, << >>), srv,
          Ret(_session_exists(srv, SessionName(name), f), "Exists", NoSession, srv,
              <<"has-session">>,
              IF _session_exists(srv, SessionName(name), f)
              THEN TmuxTarget(srv, SessionName(name)) ELSE {}),
          << >>, NoList, Met(f))
       : f \in Faults}

ListOutcomes(srv, path) ==
    UNION {
      {Done(Call("list", << >>, << >>, << >>, << >>), srv,
            Ret(TRUE, "Listed", NoSession, srv,
                IF _get_tmux_path(path) THEN <<"list-sessions">> ELSE << >>, {}),
            reply, list_micro_terminals(srv, path, reply, f), Met(f))
         : reply \in IF f = "none" /\ _get_tmux_path(path)
                     THEN Replies(srv) ELSE {<< >>}}
      : f \in FaultsIf(_get_tmux_path(path))}

Create(name, vm_type, vm_target) ==
    \E d \in CreateOutcomes(server, installed, name, vm_type, vm_target) :
        /\ Cardinality(d.post) <= MaxSessions
        /\ server' = d.post
        /\ last' = d
        /\ Frame

Destroy(name) ==
    \E d \in DestroyOutcomes(server, installed, name) :
        server' = d.post /\ last' = d /\ Frame

Send(name, command) ==
    \E d \in SendOutcomes(server, installed, name, command) :
        server' = d.post /\ last' = d /\ Frame

Attach(name, visual_terminal_path) ==
    \E d \in AttachOutcomes(server, installed, name, visual_terminal_path) :
        server' = d.post /\ last' = d /\ Frame

Exists(name) ==
    \E d \in ExistsOutcomes(server, name) :
        _get_tmux_path(installed) /\ server' = d.post /\ last' = d /\ Frame

List ==
    \E d \in ListOutcomes(server, installed) :
        server' = d.post /\ last' = d /\ Frame

\* Another tmux client starts a session; a session ends on its own.
External(op, id) ==
    /\ \/ op = "new" /\ id \notin server /\ Cardinality(server) < MaxSessions
          /\ server' = server \cup {id}
       \/ op = "exit" /\ id \in server
          /\ server' = server \ {id}
    /\ last' = Done(Call("external", << >>, << >>, << >>, id), server,
                    Ret(TRUE, op, NoSession, server', << >>, {id}), << >>, NoList, {})
    /\ Frame

Next ==
    \/ \E n \in Names, t \in VmTypes, g \in Targets : Create(n, t, g)
    \/ \E n \in Names : Destroy(n)
    \/ \E n \in Names, c \in Commands : Send(n, c)
    \/ \E n \in Names, v \in TermPaths : Attach(n, v)
    \/ \E n \in Names : Exists(n)
    \/ List
    \/ \E op \in {"new", "exit"}, id \in Idents : External(op, id)

Spec == Init /\ [][Next]_vars

(***************************************************************************)
(* SpecScript: one manager making a fixed sequence of calls, nothing else  *)
(* touching the server in between.                                         *)
(***************************************************************************)
Twice(n) ==
    <<Call("create", n, VM_LOCAL, << >>, << >>),
      Call("create", n, VM_LOCAL, << >>, << >>)>>

Lifecycle(n, command) ==
    <<Call("create", n, VM_LOCAL, << >>, << >>),
      Call("list", << >>, << >>, << >>, << >>),
      Call("send", n, << >>, << >>, command),
      Call("destroy", n, << >>, << >>, << >>),
      Call("list", << >>, << >>, << >>, << >>),
      Call("destroy", n, << >>, << >>, << >>)>>

DestroyOnly(n) == <<Call("destroy", n, << >>, << >>, << >>)>>

\* n is created and destroyed while m is created and stays; then n is looked
\* for and created again.
Again(n, m) ==
    <<Call("create", n, VM_LOCAL, << >>, << >>),
      Call("create", m, VM_LOCAL, << >>, << >>),
      Call("destroy", n, << >>, << >>, << >>),
      Call("attach", n, << >>, << >>, <<"x", "t">>),
      Call("create", n, VM_LOCAL, << >>, << >>)>>

Scripts ==
    {Twice(n) : n \in Names}
        \cup {Lifecycle(n, c) : n \in Names, c \in Commands}
        \cup {DestroyOnly(n) : n \in Names}
        \cup {Again(p[1], p[2]) : p \in {q \in Names \X Names : q[1] # q[2]}}

InitScript ==
    /\ script \in Scripts
    /\ server0 \in {S \in SUBSET Idents : Cardinality(S) < MaxSessions}
    /\ server = server0
    /\ installed \in SUBSET Tools
    /\ results = << >> /\ addr = NoAddr
    /\ last = NoDone
    /\ RaceIdle /\ UIIdle

Perform(srv, path, c) ==
    CASE c.op = "create" -> CreateOutcomes(srv, path, c.name, c.vm_type, c.vm_target)
      [] c.op = "destroy" -> DestroyOutcomes(srv, path, c.name)
      [] c.op = "send" -> SendOutcomes(srv, path, c.name, c.arg)
      [] c.op = "attach" -> AttachOutcomes(srv, path, c.name, c.arg)
      [] c.op = "list" -> ListOutcomes(srv, path)
      [] OTHER -> {}

ScriptCall ==
    /\ Len(results) < Len(script)
    /\ \E d \in Perform(server, installed, script[Len(results) + 1]) :
           /\ server' = d.post
           /\ results' = Append(results, d)
    /\ UNCHANGED <<installed, last, script, server0, addr, raceVars, uiVars>>

NextScript == ScriptCall

SpecScript == InitScript /\ [][NextScript]_vars

(***************************************************************************)
(* Claims checked under Spec                                               *)
(***************************************************************************)
Made(call) == call \in {last.calls[i] : i \in DOMAIN last.calls}

IsCreate(vm_type) == last.call.op = "create" /\ last.call.vm_type = vm_type

\* The existence check of the last operation found no session: has-session
\* named none, or it timed out or failed.
ExistenceCheckNegative ==
    last.faults # {} \/ TmuxTarget(last.pre, SessionName(last.call.name)) = {}

\* C4 as stated: with tmux present and no session found, create with the
\* docker backend and an empty target returns MissingTarget and has invoked
\* no external process at all, the existence check included.
C4_NoExternalProcess ==
    (IsCreate(VM_DOCKER) /\ last.call.vm_target = << >>
        /\ _get_tmux_path(installed) /\ ExistenceCheckNegative)
    => (last.kind = "MissingTarget" /\ last.calls = << >>)

\* C4 amended: with tmux present and no session found by the existence check,
\* create with the docker backend and an empty target returns the failure
\* MissingTarget; the existence check is the only external invocation made,
\* new-session is not invoked and the server is unchanged.
C4_MissingTarget ==
    (IsCreate(VM_DOCKER) /\ last.call.vm_target = << >>
        /\ _get_tmux_path(installed) /\ ExistenceCheckNegative)
    => (~last.ok /\ last.kind = "MissingTarget"
            /\ last.calls = <<"has-session">> /\ server = last.pre)

C4_Witness ==
    /\ IsCreate(VM_DOCKER) /\ last.call.vm_target = << >>
    /\ last.kind = "MissingTarget" /\ last.pre # {}

\* C5 as stated: create with the docker backend and a non-empty target, the
\* docker binary absent, returns ToolMissing and creates no session.
C5_AlwaysToolMissing ==
    (IsCreate(VM_DOCKER) /\ last.call.vm_target # << >>
        /\ ~_get_docker_path(installed))
    => (~last.ok /\ last.kind = "ToolMissing" /\ server = last.pre)

\* C5 amended: create with the docker backend and a non-empty target, the
\* docker binary absent, creates no session and fails; the failure is
\* ToolMissing unless the existence check found a session (then AlreadyExists).
C5_ToolMissing ==
    (IsCreate(VM_DOCKER) /\ last.call.vm_target # << >>
        /\ ~_get_docker_path(installed))
    => /\ ~last.ok /\ server = last.pre /\ ~Made("new-session")
       /\ last.kind \in {"ToolMissing", "AlreadyExists"}
       /\ (~_get_tmux_path(installed) \/ ExistenceCheckNegative)
              => last.kind = "ToolMissing"
       /\ last.kind = "AlreadyExists"
              => TmuxTarget(last.pre, SessionName(last.call.name)) # {}

C5_Witness ==
    /\ IsCreate(VM_DOCKER) /\ last.call.vm_target # << >>
    /\ _get_tmux_path(installed) /\ ~_get_docker_path(installed)
    /\ last.kind = "ToolMissing" /\ last.calls = <<"has-session">>

RECURSIVE Tagged(_)
Tagged(ids) ==
    IF ids = << >> THEN << >>
    ELSE IF StartsWith(Head(ids), MICRO_TERM_PREFIX)
         THEN <<Head(ids)>> \o Tagged(Tail(ids))
         ELSE Tagged(Tail(ids))

\* C7: the names list() returns, each prefixed with the tag again, are the
\* identifiers of the server's reply that carry the tag, in the reply's order;
\* no session without the tag is reported.
C7_ListOnlyTagged ==
    last.call.op = "list"
    => [i \in DOMAIN last.out |-> SessionName(last.out[i])] = Tagged(last.reply)

\* C8: the set of sessions changes only by a successful create, which adds
\* exactly the tagged identifier of its name, by a successful destroy, or by
\* another client; exists, list, send, attach, and any operation that fails
\* before its new-session or kill-session invocation, leave it unchanged.
C8_Frame ==
    /\ server # last.pre
           => \/ /\ last.call.op = "create" /\ last.ok
                 /\ SessionName(last.call.name) \notin last.pre
                 /\ server = last.pre \cup {SessionName(last.call.name)}
              \/ /\ last.call.op = "destroy" /\ last.ok
                 /\ server \subseteq last.pre
              \/ last.call.op = "external"
    /\ last.call.op \in {"exists", "list", "send", "attach"} => server = last.pre
    /\ (last.call.op \in {"create", "destroy"} /\ ~last.ok
            /\ ~Made("new-session") /\ ~Made("kill-session"))
           => server = last.pre

C8_Witness ==
    /\ last.call.op = "create" /\ last.ok
    /\ server = last.pre \cup {SessionName(last.call.name)}
    /\ last.pre # {} /\ server # last.pre

(***************************************************************************)
(* Claims checked under SpecScript                                         *)
(***************************************************************************)
\* The first k calls of the script have returned and every external
\* invocation they made ran to its end.
Ran(k) == Len(results) >= k /\ \A i \in 1..k : results[i].faults = {}

\* C1: with tmux present and no session with n's identifier on the server,
\* create(n, local) succeeds, an immediately following create(n, local) fails
\* with AlreadyExists, and the session with that identifier exists afterwards.
C1_CreateTwice ==
    \A n \in Names :
        (script = Twice(n) /\ _get_tmux_path(installed)
            /\ SessionName(n) \notin server0)
        => /\ Ran(1) => (results[1].ok /\ results[1].post = server0 \cup {SessionName(n)})
           /\ Ran(2) => (~results[2].ok /\ results[2].kind = "AlreadyExists"
                            /\ server = server0 \cup {SessionName(n)})

Reports(i, n) == \E j \in DOMAIN results[i].out : results[i].out[j] = n

\* C2: after a successful create(a, local), list() includes a, send(a, cmd)
\* succeeds, destroy(a) succeeds, the following list() excludes a and the
\* following destroy(a) fails with NotFound.
C2_Lifecycle ==
    \A n \in Names, c \in Commands :
        (script = Lifecycle(n, c) /\ Ran(1) /\ results[1].ok)
        => /\ Ran(2) => Reports(2, n)
           /\ Ran(3) => results[3].ok
           /\ Ran(4) => results[4].ok
           /\ Ran(5) => ~Reports(5, n)
           /\ Ran(6) => (~results[6].ok /\ results[6].kind = "NotFound")

\* C6: destroy(n) of a name that was never created fails with NotFound, not
\* with DestroyFailed, and leaves the sessions of the server as they were.
C6_DestroyNeverCreated ==
    \A n \in Names :
        (script = DestroyOnly(n) /\ _get_tmux_path(installed)
            /\ SessionName(n) \notin server0 /\ Ran(1))
        => (~results[1].ok /\ results[1].kind = "NotFound" /\ server = server0)

(***************************************************************************)
(* SpecRace: two managers run create for the same name at the same time;   *)
(* the existence check and the new-session invocation of each are separate *)
(* tmux commands, and the server serves the commands one at a time.        *)
(***************************************************************************)
InitRace ==
    /\ rname \in Names
    /\ rpc = [p \in Managers |-> "start"]
    /\ rres = [p \in Managers |-> NoRet]
    /\ server0 \in {S \in SUBSET Idents : Cardinality(S) < MaxSessions}
    /\ server = server0
    /\ installed \in SUBSET Tools
    /\ script = << >> /\ results = << >> /\ addr = NoAddr
    /\ last = NoDone
    /\ UIIdle

\* Lines 92-126 of create: the tool lookup, the existence check and the
\* start command.
RaceCheck(p) ==
    /\ rpc[p] = "start"
    /\ \E f \in FaultsIf(_get_tmux_path(installed)) :
           LET pre == CreatePrepare(server, installed, rname, VM_LOCAL, << >>, f)
           IN  IF pre.kind = "go"
               THEN /\ rpc' = [rpc EXCEPT ![p] = "checked"]
                    /\ UNCHANGED rres
               ELSE /\ rpc' = [rpc EXCEPT ![p] = "done"]
                    /\ rres' = [rres EXCEPT ![p] = pre]
    /\ UNCHANGED <<server, installed, last, scriptVars, rname, uiVars>>

\* Lines 128-138 of create: the new-session invocation and the result.
RaceNew(p) ==
    /\ rpc[p] = "checked"
    /\ \E f \in Faults :
           LET r == CreateNewSession(server, rname, f)
           IN  /\ server' = r.server
               /\ rres' = [rres EXCEPT ![p] = r]
               /\ rpc' = [rpc EXCEPT ![p] = "done"]
    /\ UNCHANGED <<installed, last, scriptVars, rname, uiVars>>

NextRace == \E p \in Managers : RaceCheck(p) \/ RaceNew(p)

SpecRace == InitRace /\ [][NextRace]_vars

\* C3: of two managers creating the same name at the same time, under every
\* interleaving of their existence checks and new-session invocations, at
\* most one returns success; when one has, the other returns a failure, and
\* no second session was made under the identifier.
C3_AtMostOneSuccess ==
    /\ ~(rres[1].ok /\ rres[2].ok)
    /\ \A p \in Managers :
           rres[p].ok => /\ rres[p].kind = "Created"
                         /\ SessionName(rname) \notin server0
                         /\ server = server0 \cup {SessionName(rname)}
                         /\ \A q \in Managers \ {p} :
                                rpc[q] = "done" => ~rres[q].ok
    /\ (\A p \in Managers : ~rres[p].ok) => server = server0

\* Both managers passed the existence check before either made the session:
\* one made it, tmux refused the other.
C3_Witness ==
    /\ rpc[1] = "done" /\ rpc[2] = "done"
    /\ rres[1].ok /\ ~rres[2].ok
    /\ rres[2].kind = "CreateFailed"
    /\ rres[2].calls = <<"has-session", "new-session">>

(***************************************************************************)
(* SpecUI: run_micro_terminal_manager, the interactive dispatcher.  pc is  *)
(* the prompt it waits at: "prompt" (top level), "ask_open" (open after    *)
(* new), "ask_destroy" (destroy confirmation), or "returned".              *)
(***************************************************************************)
Lowered ==
    ("N" :> "n") @@ ("E" :> "e") @@ ("W" :> "w") @@ ("Y" :> "y") @@ ("S" :> "s")
        @@ ("D" :> "d") @@ ("O" :> "o") @@ ("C" :> "c") @@ ("K" :> "k") @@ ("R" :> "r")

LowerChar(c) == IF c \in DOMAIN Lowered THEN Lowered[c] ELSE c

Lower(s) == [i \in DOMAIN s |-> LowerChar(s[i])]

\* str.split(): the maximal runs of non-whitespace characters.
RECURSIVE Split(_)
Split(s) ==
    LET t == Strip(s)
        ws == {i \in 1..Len(t) : IsSpace(t[i])}
    IN  IF t = << >> THEN << >>
        ELSE IF ws = {} THEN <<t>>
        ELSE <<SubSeq(t, 1, Min(ws) - 1)>> \o Split(SubSeq(t, Min(ws) + 1, Len(t)))

\* " ".join(tokens)
RECURSIVE Join(_)
Join(tokens) ==
    IF tokens = << >> THEN << >>
    ELSE IF Len(tokens) = 1 THEN Head(tokens)
    ELSE Head(tokens) \o <<SP>> \o Join(Tail(tokens))

W_new == <<"n","e","w">>
W_open == <<"o","p","e","n">>
W_send == <<"s","e","n","d">>
W_destroy == <<"d","e","s","t","r","o","y">>
W_list == <<"l","i","s","t">>
W_back == <<"b","a","c","k">>
W_quit == <<"q","u","i","t">>
W_exit == <<"e","x","i","t">>
W_y == <<"y">>
W_yes == <<"y","e","s">>

\* Lines the operator types at the top-level prompt.
InputLines ==
    {<< >>, <<SP>>, W_list, W_back, W_quit, W_exit, <<"h","i">>,
     W_new, W_open, W_send, W_destroy,
     Join(<<W_send, <<"a">>>>),
     Join(<<W_new, <<"a">>, VM_DOCKER>>),
     Join(<<W_new, <<"a">>, <<"D","O","C","K","E","R">>, <<"c","1">>>>),
     Join(<<W_new, <<"a","b">>, VM_SSH, <<"c","1">>>>),
     Join(<<W_new, <<"a">>, <<"v","m">>, <<"c","1">>>>)}
        \cup {Join(<<w, n>>) : w \in {W_new, W_open, W_destroy}, n \in Names}
        \cup {<<SP>> \o Join(<<<<"N","e","w">>, <<"a">>>>) \o <<SP>>}
        \cup {Join(<<W_send, n>> \o Split(c) \o <<<<"-","l">>>>) : n \in Names, c \in Commands}

\* Answers the operator gives at a nested (y/n) prompt.
Answers == {W_y, W_yes, <<SP, "Y", SP>>, <<"n">>, << >>, <<"y","y">>}

\* open_choice in ("y", "yes") / confirm in ("y", "yes"), after strip().lower()
Affirmative_NotNo(answer) == Lower(Strip(answer)) # <<"n">>

Affirmative(answer) == Lower(Strip(answer)) \in {W_y, W_yes}

InitUI ==
    /\ server0 \in {S \in SUBSET Idents : Cardinality(S) < MaxSessions}
    /\ server = server0
    /\ installed \in SUBSET Tools
    /\ ui_terminal_path \in TermPaths
    /\ pc = "prompt" /\ term_name = << >> /\ ret = "none" /\ ctl = NoCtl
    /\ proc = NoProc
    /\ last = NoDone
    /\ script = << >> /\ results = << >> /\ addr = NoAddr
    /\ RaceIdle

UIFrame == UNCHANGED <<installed, last, scriptVars, raceVars, ui_terminal_path, proc>>

\* What one input did: where it was read, the line, whether reading it was
\* interrupted, the controller operations invoked, whether a usage message
\* was printed, the name concerned, the operation's record, the server before.
Handled(at, input, interrupted, ops, usage, name, done) ==
    /\ ctl' = [at |-> at, input |-> input, interrupted |-> interrupted,
               ops |-> ops, usage |-> usage, name |-> name, done |-> done,
               pre |-> server]
    /\ server' = IF done = NoDone THEN server ELSE done.post

\* term_name is read only at the nested prompts, where it is the name bound by
\* the line just handled; the rebinding by the listing loop happens before the
\* next line is read and is never observed.
Goto(to, result, name) == pc' = to /\ ret' = result /\ term_name' = name

\* user_input = input().strip(); parts = user_input.split();
\* cmd = parts[0].lower(), for each line the operator may type.
Read ==
    [line \in InputLines |->
        [user_input |-> Strip(line),
         parts |-> Split(Strip(line)),
         cmd |-> IF Strip(line) = << >> THEN << >>
                 ELSE Lower(Split(Strip(line))[1])]]

Parts(line) == Read[line].parts

AtTop(line, cmds) ==
    /\ pc = "prompt"
    /\ Read[line].user_input # << >>
    /\ Read[line].cmd \in cmds

\* KeyboardInterrupt or EOFError at the top-level prompt.
UIInterrupt ==
    /\ pc = "prompt"
    /\ Handled("top", << >>, TRUE, <<"list">>, FALSE, << >>, NoDone)
    /\ Goto("returned", "quit", term_name)
    /\ UIFrame

UIEmpty(line) ==
    /\ pc = "prompt" /\ Read[line].user_input = << >>
    /\ Handled("top", line, FALSE, <<"list">>, FALSE, << >>, NoDone)
    /\ Goto("prompt", ret, term_name)
    /\ UIFrame

UIQuit(line) ==
    /\ AtTop(line, {W_quit, W_exit})
    /\ Handled("top", line, FALSE, <<"list">>, FALSE, << >>, NoDone)
    /\ Goto("returned", "quit", term_name)
    /\ UIFrame

UIBack(line) ==
    /\ AtTop(line, {W_back})
    /\ Handled("top", line, FALSE, <<"list">>, FALSE, << >>, NoDone)
    /\ Goto("returned", "back", term_name)
    /\ UIFrame

UIList(line) ==
    /\ AtTop(line, {W_list})
    /\ Handled("top", line, FALSE, <<"list">>, FALSE, << >>, NoDone)
    /\ Goto("prompt", ret, term_name)
    /\ UIFrame

UINewUsage(line) ==
    /\ AtTop(line, {W_new})
    /\ Len(Parts(line)) < 2 \/ Len(Parts(line)) = 3
    /\ Handled("top", line, FALSE, <<"list">>, TRUE, << >>, NoDone)
    /\ Goto("prompt", ret, IF Len(Parts(line)) = 3 THEN Parts(line)[2] ELSE term_name)
    /\ UIFrame

UINew_TargetOptional(line) ==
    /\ AtTop(line, {W_new})
    /\ Len(Parts(line)) >= 2
    /\ LET parts == Parts(line)
           vm_type == IF Len(parts) >= 3 THEN Lower(parts[3]) ELSE VM_LOCAL
           vm_target == IF Len(parts) >= 4 THEN parts[4] ELSE << >>
       IN  \E d \in CreateOutcomes(server, installed, parts[2], vm_type, vm_target) :
               /\ Cardinality(d.post) <= MaxSessions
               /\ Handled("top", line, FALSE, <<"list", "create">>, FALSE, parts[2], d)
               /\ Goto(IF d.ok THEN "ask_open" ELSE "prompt", ret, parts[2])
    /\ UIFrame

UINew(line) ==
    /\ AtTop(line, {W_new})
    /\ Len(Parts(line)) >= 2 /\ Len(Parts(line)) # 3
    /\ LET parts == Parts(line)
           vm_type == IF Len(parts) >= 4 THEN Lower(parts[3]) ELSE VM_LOCAL
           vm_target == IF Len(parts) >= 4 THEN parts[4] ELSE << >>
       IN  \E d \in CreateOutcomes(server, installed, parts[2], vm_type, vm_target) :
               /\ Cardinality(d.post) <= MaxSessions
               /\ Handled("top", line, FALSE, <<"list", "create">>, FALSE, parts[2], d)
               /\ Goto(IF d.ok THEN "ask_open" ELSE "prompt", ret, parts[2])
    /\ UIFrame

UIOpenAnswer(answer) ==
    /\ pc = "ask_open"
    /\ IF Affirmative(answer)
       THEN \E d \in AttachOutcomes(server, installed, term_name, ui_terminal_path) :
                Handled("ask_open", answer, FALSE, <<"attach">>, FALSE, term_name, d)
       ELSE Handled("ask_open", answer, FALSE, << >>, FALSE, term_name, NoDone)
    /\ Goto("prompt", ret, term_name)
    /\ UIFrame

UIOpen(line) ==
    /\ AtTop(line, {W_open})
    /\ IF Len(Parts(line)) < 2
       THEN Handled("top", line, FALSE, <<"list">>, TRUE, << >>, NoDone)
       ELSE \E d \in AttachOutcomes(server, installed, Parts(line)[2],
                                    ui_terminal_path) :
                Handled("top", line, FALSE, <<"list", "attach">>, FALSE,
                        Parts(line)[2], d)
    /\ Goto("prompt", ret, term_name)
    /\ UIFrame

UISend(line) ==
    /\ AtTop(line, {W_send})
    /\ IF Len(Parts(line)) < 3
       THEN /\ Handled("top", line, FALSE, <<"list">>, TRUE, << >>, NoDone)
            /\ Goto("prompt", ret, term_name)
       ELSE LET parts == Parts(line)
                command == Join(SubSeq(parts, 3, Len(parts)))
            IN  /\ \E d \in SendOutcomes(server, installed, parts[2], command) :
                       Handled("top", line, FALSE, <<"list", "send">>, FALSE, parts[2], d)
                /\ Goto("prompt", ret, parts[2])
    /\ UIFrame

UIDestroy(line) ==
    /\ AtTop(line, {W_destroy})
    /\ IF Len(Parts(line)) < 2
       THEN /\ Handled("top", line, FALSE, <<"list">>, TRUE, << >>, NoDone)
            /\ Goto("prompt", ret, term_name)
       ELSE /\ Handled("top", line, FALSE, <<"list">>, FALSE, Parts(line)[2], NoDone)
            /\ Goto("ask_destroy", ret, Parts(line)[2])
    /\ UIFrame

UIDestroyAnswer(answer) ==
    /\ pc = "ask_destroy"
    /\ IF Affirmative(answer)
       THEN \E d \in DestroyOutcomes(server, installed, term_name) :
                Handled("ask_destroy", answer, FALSE, <<"destroy">>, FALSE, term_name, d)
       ELSE Handled("ask_destroy", answer, FALSE, << >>, FALSE, term_name, NoDone)
    /\ Goto("prompt", ret, term_name)
    /\ UIFrame

\* KeyboardInterrupt or EOFError at a nested prompt: `continue`.
NestedInterrupt_Quits(at) ==
    /\ pc = at /\ at \in {"ask_open", "ask_destroy"}
    /\ Handled(at, << >>, TRUE, << >>, FALSE, term_name, NoDone)
    /\ Goto("returned", "quit", term_name)
    /\ UIFrame

NestedInterrupt(at) ==
    /\ pc = at /\ at \in {"ask_open", "ask_destroy"}
    /\ Handled(at, << >>, TRUE, << >>, FALSE, term_name, NoDone)
    /\ Goto("prompt", ret, term_name)
    /\ UIFrame

UIUnknown_Quits(line) ==
    /\ pc = "prompt" /\ Read[line].user_input # << >>
    /\ Read[line].cmd \notin {W_quit, W_exit, W_back, W_list, W_new, W_open,
                              W_send, W_destroy}
    /\ Handled("top", line, FALSE, <<"list">>, FALSE, << >>, NoDone)
    /\ Goto("returned", "quit", term_name)
    /\ UIFrame

UIUnknown(line) ==
    /\ pc = "prompt" /\ Read[line].user_input # << >>
    /\ Read[line].cmd \notin {W_quit, W_exit, W_back, W_list, W_new, W_open,
                              W_send, W_destroy}
    /\ Handled("top", line, FALSE, <<"list">>, FALSE, << >>, NoDone)
    /\ Goto("prompt", ret, term_name)
    /\ UIFrame

NextUI ==
    \/ UIInterrupt
    \/ \E line \in InputLines :
           \/ UIEmpty(line) \/ UIQuit(line) \/ UIBack(line) \/ UIList(line)
           \/ UINewUsage(line) \/ UINew(line) \/ UIOpen(line) \/ UISend(line)
           \/ UIDestroy(line) \/ UIUnknown(line)
    \/ \E answer \in Answers : UIOpenAnswer(answer) \/ UIDestroyAnswer(answer)
    \/ \E at \in {"ask_open", "ask_destroy"} : NestedInterrupt(at)

SpecUI == InitUI /\ [][NextUI]_vars

(***************************************************************************)
(* Claims checked under SpecUI                                             *)
(***************************************************************************)
Invoked(op) == op \in {ctl.ops[i] : i \in DOMAIN ctl.ops}

SaidYes == ~ctl.interrupted /\ Lower(Strip(ctl.input)) \in {W_y, W_yes}

\* C9: the dispatcher invokes the controller's destroy only at the
\* confirmation prompt of a `destroy <name>` line and only for the answer y or
\* yes; for any other answer destroy is not invoked, the server is as it was,
\* and the named session, if it was running, still is.
C9_DestroyConfirmed ==
    /\ Invoked("destroy")
           => /\ ctl.at = "ask_destroy" /\ SaidYes
              /\ ctl.done.call.op = "destroy" /\ ctl.done.call.name = ctl.name
    /\ (ctl.at = "ask_destroy" /\ ~SaidYes)
           => /\ ~Invoked("destroy") /\ ctl.ops = << >>
              /\ server = ctl.pre
              /\ pc = "prompt"
    /\ (ctl.at = "ask_destroy" /\ SaidYes) => Invoked("destroy")
    /\ pc = "ask_destroy" => (~Invoked("destroy") /\ server = ctl.pre)

\* An answer other than y/yes was given for a running session, and it runs on.
C9_Witness ==
    /\ ctl.at = "ask_destroy" /\ ~ctl.interrupted /\ ctl.input = <<"n">>
    /\ SessionName(ctl.name) \in ctl.pre
    /\ SessionName(ctl.name) \in server
    /\ ~Invoked("destroy")

Nested == {"ask_open", "ask_destroy"}

\* C10: an interruption of input at the top-level prompt ends the loop with
\* result quit; at a nested prompt it cancels that action only: destroy
\* (resp. attach) is not invoked, the session just created stays running, and
\* the dispatcher is back at the top-level prompt.
C10_Interruption ==
    /\ (ctl.interrupted /\ ctl.at = "top") => (pc = "returned" /\ ret = "quit")
    /\ (ctl.interrupted /\ ctl.at \in Nested)
           => /\ pc = "prompt" /\ ret = "none"
              /\ ctl.ops = << >>
              /\ server = ctl.pre
    /\ (ctl.interrupted /\ ctl.at = "ask_open") => SessionName(ctl.name) \in server
    /\ pc \in Nested => ret = "none"

C10_Witness ==
    /\ ctl.interrupted /\ ctl.at = "ask_open"
    /\ pc = "prompt" /\ SessionName(ctl.name) \in server
    /\ SessionName(ctl.name) \notin server0

\* The verb of a line read at the top-level prompt, none for a blank line.
Verb(line) ==
    IF Split(Strip(line)) = << >> THEN << >> ELSE Lower(Split(Strip(line))[1])

Verbs == {W_quit, W_exit, W_back, W_list, W_new, W_open, W_send, W_destroy}

Failed == ctl.done # NoDone /\ ~ctl.done.ok

Malformed(line) ==
    LET n == Len(Split(Strip(line)))
    IN  \/ Verb(line) = W_new /\ (n < 2 \/ n = 3)
        \/ Verb(line) \in {W_open, W_destroy} /\ n < 2
        \/ Verb(line) = W_send /\ n < 3

\* C12: a new, open, send or destroy line with a wrong token count gets the
\* usage message and the loop goes on to the next prompt; create, attach, send
\* and destroy are not invoked for it, no confirmation is asked, and the
\* server's sessions are as before the line.
C12_Usage ==
    /\ (ctl.at = "top" /\ ~ctl.interrupted /\ Malformed(ctl.input))
           => /\ ctl.usage
              /\ ctl.ops = <<"list">> /\ ctl.done = NoDone
              /\ server = ctl.pre
              /\ pc = "prompt" /\ ret = "none"
    /\ ctl.usage => (ctl.at = "top" /\ ~ctl.interrupted /\ Malformed(ctl.input))

\* `new a docker`, three tokens, typed while a session was running.
C12_Witness ==
    /\ ctl.usage /\ Verb(ctl.input) = W_new /\ Len(Split(Strip(ctl.input))) = 3
    /\ server # {} /\ server = ctl.pre
    /\ pc = "prompt"

(***************************************************************************)
(* Further claims checked under Spec                                       *)
(***************************************************************************)
\* C13: whenever the has-session query of an existence check times out or
\* fails, or no server is running, the check returns false as an ordinary
\* result, whether or not the session is on the server, and the server is
\* left as it was.
C13_ExistsFalseOnFailure ==
    last.call.op = "exists"
        => /\ last.kind = "Exists" /\ last.ok \in BOOLEAN
           /\ last.post = last.pre
           /\ (last.faults # {} \/ last.pre = {}) => (~last.ok /\ last.hit = {})

\* The query timed out while the session was running.
C13_Witness ==
    /\ last.call.op = "exists" /\ last.faults = {"timeout"}
    /\ SessionName(last.call.name) \in last.pre
    /\ ~last.ok

(***************************************************************************)
(* SpecHang: the dispatcher with every external invocation taking time. A  *)
(* tool that hangs is waited for until the timeout given to subprocess.run *)
(* has passed; the clock counts seconds.                                   *)
(***************************************************************************)
HAS_SESSION_TIMEOUT == 3
LIST_SESSIONS_TIMEOUT == 5
NEW_SESSION_TIMEOUT == 10
KILL_SESSION_TIMEOUT == 5
SEND_KEYS_TIMEOUT == 5

Timeout(tool) ==
    CASE tool = "has-session" -> HAS_SESSION_TIMEOUT
      [] tool = "list-sessions" -> LIST_SESSIONS_TIMEOUT
      [] tool = "new-session" -> NEW_SESSION_TIMEOUT
      [] tool = "kill-session" -> KILL_SESSION_TIMEOUT
      [] tool = "send-keys" -> SEND_KEYS_TIMEOUT

\* How each external invocation of an operation with one subprocess.run ends.
FaultSeq(d) ==
    [i \in 1..Len(d.calls) |->
        IF i = 1 /\ d.faults # {} THEN CHOOSE f \in d.faults : TRUE ELSE "none"]

Runs(outcomes) == {[d |-> d, fs |-> FaultSeq(d)] : d \in outcomes}

\* create_micro_terminal runs has-session and then new-session.
CreateRuns(srv, path, name, vm_type, vm_target) ==
    UNION {
      {LET r == create_micro_terminal(srv, path, name, vm_type, vm_target, f1, f2)
       IN  [d |-> Done(Call("create", name, vm_type, vm_target, << >>), srv, r,
                       << >>, NoList, Met(f1) \cup Met(f2)),
            fs |-> SubSeq(<<f1, f2>>, 1, Len(r.calls))]
         : f2 \in FaultsIf(CreatePrepare(srv, path, name, vm_type,
                                         vm_target, f1).kind = "go")}
      : f1 \in FaultsIf(_get_tmux_path(path) /\ vm_type \in VM_TYPES)}

\* Lines the operator types at the top-level prompt, one or two for each
\* branch of the dispatcher.
HangLines ==
    {<< >>, W_quit, W_back, <<"h","i">>, W_new, W_open,
     Join(<<W_new, <<"a">>>>),
     Join(<<W_new, <<"a">>, <<"D","O","C","K","E","R">>, <<"c","1">>>>),
     Join(<<W_open, <<"a">>>>),
     Join(<<W_send, <<"a">>, <<"l","s">>, <<"-","l">>>>),
     Join(<<W_destroy, <<"a">>>>)}

HangAnswers == {W_y, <<"n">>}

InitHang ==
    /\ server0 \in {S \in SUBSET Idents : Cardinality(S) < MaxSessions}
    /\ server = server0
    /\ installed \in SUBSET Tools
    /\ ui_terminal_path \in TermPaths
    /\ pc = "listing" /\ term_name = << >> /\ ret = "none" /\ ctl = NoCtl
    /\ proc = NoProc
    /\ last = NoDone
    /\ script = << >> /\ results = << >> /\ addr = NoAddr
    /\ RaceIdle

HFrame == UNCHANGED <<installed, last, scriptVars, raceVars, ui_terminal_path, ctl>>

\* The dispatcher calls an operation and waits for it.
Start(run, then, name) ==
    /\ pc' = "running"
    /\ proc' = [d |-> run.d, fs |-> run.fs, i |-> 1, elapsed |-> 0, then |-> then]
    /\ term_name' = name
    /\ UNCHANGED <<server, ret>>

\* The dispatcher moves on without calling the controller.
Pass(to, result, name) ==
    /\ pc' = to /\ ret' = result /\ term_name' = name
    /\ UNCHANGED <<server, proc>>

Running == pc = "running" /\ proc.i <= Len(proc.d.calls)

Hung == Running /\ proc.fs[proc.i] = "timeout"

\* Every way list_micro_terminals can go with tmux found, for each server.
ListRuns ==
    [srv \in {S \in SUBSET Idents : Cardinality(S) <= MaxSessions} |->
        Runs(ListOutcomes(srv, {"tmux"}))] @@ << >>

\* active = list_micro_terminals() at the head of each iteration.
HList ==
    /\ pc = "listing"
    /\ \E run \in IF _get_tmux_path(installed) THEN ListRuns[server]
                   ELSE Runs(ListOutcomes(server, installed)) :
           Start(run, "prompt", term_name)
    /\ HFrame

HInterrupt ==
    /\ pc = "prompt"
    /\ Pass("returned", "quit", term_name)
    /\ HFrame

\* quit, exit and back return; a blank line, list, an unknown command and a
\* wrong token count go to the next iteration.
HLine(line) ==
    /\ pc = "prompt"
    /\ LET n == Len(Parts(line))
           cmd == Read[line].cmd
       IN  IF Read[line].user_input = << >> THEN Pass("listing", ret, term_name)
           ELSE IF cmd \in {W_quit, W_exit} THEN Pass("returned", "quit", term_name)
           ELSE IF cmd = W_back THEN Pass("returned", "back", term_name)
           ELSE IF cmd = W_new
           THEN (n < 2 \/ n = 3) /\ Pass("listing", ret, term_name)
           ELSE IF cmd \in {W_open, W_destroy}
           THEN n < 2 /\ Pass("listing", ret, term_name)
           ELSE IF cmd = W_send
           THEN n < 3 /\ Pass("listing", ret, term_name)
           ELSE Pass("listing", ret, term_name)
    /\ HFrame

HNew(line) ==
    /\ AtTop(line, {W_new})
    /\ Len(Parts(line)) >= 2 /\ Len(Parts(line)) # 3
    /\ LET parts == Parts(line)
           vm_type == IF Len(parts) >= 4 THEN Lower(parts[3]) ELSE VM_LOCAL
           vm_target == IF Len(parts) >= 4 THEN parts[4] ELSE << >>
       IN  \E run \in CreateRuns(server, installed, parts[2], vm_type, vm_target) :
               /\ Cardinality(run.d.post) <= MaxSessions
               /\ Start(run, "created", parts[2])
    /\ HFrame

HOpen(line) ==
    /\ AtTop(line, {W_open})
    /\ Len(Parts(line)) >= 2
    /\ \E run \in Runs(AttachOutcomes(server, installed, Parts(line)[2],
                                      ui_terminal_path)) :
           Start(run, "listing", term_name)
    /\ HFrame

HSend(line) ==
    /\ AtTop(line, {W_send})
    /\ Len(Parts(line)) >= 3
    /\ LET parts == Parts(line)
           command == Join(SubSeq(parts, 3, Len(parts)))
       IN  \E run \in Runs(SendOutcomes(server, installed, parts[2], command)) :
               Start(run, "listing", parts[2])
    /\ HFrame

HDestroy(line) ==
    /\ AtTop(line, {W_destroy})
    /\ Len(Parts(line)) >= 2
    /\ Pass("ask_destroy", ret, Parts(line)[2])
    /\ HFrame

HOpenAnswer(answer) ==
    /\ pc = "ask_open"
    /\ IF Affirmative(answer)
       THEN \E run \in Runs(AttachOutcomes(server, installed, term_name,
                                           ui_terminal_path)) :
                Start(run, "listing", term_name)
       ELSE Pass("listing", ret, term_name)
    /\ HFrame

HDestroyAnswer(answer) ==
    /\ pc = "ask_destroy"
    /\ IF Affirmative(answer)
       THEN \E run \in Runs(DestroyOutcomes(server, installed, term_name)) :
                Start(run, "listing", term_name)
       ELSE Pass("listing", ret, term_name)
    /\ HFrame

HNestedInterrupt(at) ==
    /\ pc = at /\ at \in {"ask_open", "ask_destroy"}
    /\ Pass("listing", ret, term_name)
    /\ HFrame

\* A second passes while subprocess.run waits for a tool that hangs.
HTick ==
    /\ Hung /\ proc.elapsed < Timeout(proc.d.calls[proc.i])
    /\ proc' = [proc EXCEPT !.elapsed = @ + 1]
    /\ UNCHANGED <<server, pc, term_name, ret>>
    /\ HFrame

\* subprocess.run waits without a timeout.
HExpire_NoTimeout ==
    /\ Hung /\ FALSE
    /\ proc' = [proc EXCEPT !.i = @ + 1, !.elapsed = 0]
    /\ UNCHANGED <<server, pc, term_name, ret>>
    /\ HFrame

\* The timeout has passed: subprocess.run kills the tool and raises
\* TimeoutExpired, which the operation catches.
HExpire ==
    /\ Hung /\ proc.elapsed = Timeout(proc.d.calls[proc.i])
    /\ proc' = [proc EXCEPT !.i = @ + 1, !.elapsed = 0]
    /\ UNCHANGED <<server, pc, term_name, ret>>
    /\ HFrame

\* The tool exits, or could not be started; Popen does not wait.
HReply ==
    /\ Running /\ ~Hung
    /\ proc' = [proc EXCEPT !.i = @ + 1]
    /\ UNCHANGED <<server, pc, term_name, ret>>
    /\ HFrame

\* The operation returns its result to the dispatcher.
HReturn ==
    /\ pc = "running" /\ proc.i > Len(proc.d.calls)
    /\ server' = proc.d.post
    /\ pc' = IF proc.then = "created"
             THEN IF proc.d.ok THEN "ask_open" ELSE "listing"
             ELSE proc.then
    /\ UNCHANGED <<proc, term_name, ret>>
    /\ HFrame

Answer ==
    \/ \E answer \in HangAnswers : HOpenAnswer(answer) \/ HDestroyAnswer(answer)
    \/ \E at \in {"ask_open", "ask_destroy"} : HNestedInterrupt(at)

NextHang ==
    \/ HList
    \/ HInterrupt
    \/ \E line \in HangLines :
           HLine(line) \/ HNew(line) \/ HOpen(line) \/ HSend(line) \/ HDestroy(line)
    \/ Answer
    \/ HTick \/ HExpire \/ HReply \/ HReturn

\* The steps that need no line from the operator: time passes, the program
\* runs, and the operator answers a nested prompt.
Progress == HList \/ HTick \/ HExpire \/ HReply \/ HReturn \/ Answer

SpecHang == InitHang /\ [][NextHang]_vars /\ WF_vars(Progress)

(***************************************************************************)
(* Claims checked under SpecHang                                           *)
(***************************************************************************)
Returned == pc # "running" /\ proc # NoProc

\* What an operation returned when its k-th external invocation timed out.
TimeoutNormalised(k) ==
    LET d == proc.d
        tool == d.calls[k]
    IN  /\ tool # "popen"
        /\ tool = "list-sessions" => (d.out = NoList /\ d.post = d.pre)
        /\ tool = "has-session"
               => /\ d.kind # "AlreadyExists"
                  /\ d.call.op = "attach" => (~d.ok /\ d.kind = "NotFound")
        /\ tool \in {"new-session", "kill-session", "send-keys"}
               => (~d.ok /\ d.kind = "Unexpected" /\ d.post = d.pre)

\* C14: an operation the dispatcher has issued always completes, a tool that
\* hangs being waited for no longer than its timeout; the timeout comes back
\* as an ordinary result (a failure of the operation, false for the existence
\* check, no names for list); and, the operator answering nested prompts, the
\* dispatcher then reaches the top-level prompt.
C14_NoFreeze ==
    /\ [](Hung => proc.elapsed <= Timeout(proc.d.calls[proc.i]))
    /\ [](Returned => \A k \in DOMAIN proc.fs :
                          proc.fs[k] = "timeout" => TimeoutNormalised(k))
    /\ (pc \in {"running", "ask_open", "ask_destroy", "listing"}) ~> (pc = "prompt")

\* new-session hung for its ten seconds, create returned a failure and the
\* loop went on.
C14_Witness ==
    /\ Returned /\ pc = "listing"
    /\ proc.d.call.op = "create" /\ proc.fs = <<"none", "timeout">>
    /\ ~proc.d.ok /\ proc.d.kind = "Unexpected"

(***************************************************************************)
(* Claims checked under Spec, continued                                    *)
(***************************************************************************)
\* The last operation was create(n, ...) for a name whose identifier is not on
\* the server, with tmux found and every external invocation running normally.
CreateOnAbsent ==
    /\ last.call.op = "create"
    /\ SessionName(last.call.name) \notin last.pre
    /\ _get_tmux_path(installed)
    /\ last.faults = {}

\* C15: with tmux present, create(n, Local) on an absent name succeeds whether
\* or not docker and ssh are installed; create(n, Remote(t)) with ssh present
\* succeeds whether or not docker is; create(n, Container(t)) with docker
\* present succeeds whether or not ssh is.
C15_ToolsIndependent ==
    /\ (CreateOnAbsent /\ last.call.vm_type = VM_LOCAL)
           => (last.ok /\ SessionName(last.call.name) \in server)
    /\ (CreateOnAbsent /\ last.call.vm_type = VM_SSH /\ last.call.vm_target # << >>
            /\ _get_ssh_path(installed))
           => (last.ok /\ SessionName(last.call.name) \in server)
    /\ (CreateOnAbsent /\ last.call.vm_type = VM_DOCKER /\ last.call.vm_target # << >>
            /\ _get_docker_path(installed))
           => (last.ok /\ SessionName(last.call.name) \in server)

\* C16: with tmux found, attach(name, path) starts the visual terminal only
\* when path is non-empty and the session of that name is on the server when
\* it is checked; an empty path gives NoTerminalConfigured, a non-empty path
\* with the session absent gives NotFound, and neither starts a process.
C16_AttachPreconditions ==
    (last.call.op = "attach" /\ _get_tmux_path(installed))
        => /\ Made("popen")
                  => (last.call.arg # << >> /\ SessionName(last.call.name) \in last.pre)
           /\ last.call.arg = << >>
                  => (~last.ok /\ last.kind = "NoTerminalConfigured" /\ last.calls = << >>)
           /\ (last.call.arg # << >> /\ SessionName(last.call.name) \notin last.pre)
                  => (~last.ok /\ last.kind = "NotFound" /\ ~Made("popen"))

(***************************************************************************)
(* SpecNames: session addressing. A name is made an identifier as create   *)
(* does, tmux prints the identifiers, and list makes names of the lines.   *)
(***************************************************************************)
MaxNameLen == 2

NameChars == {"a", "-", SP}

\* The names given to create_micro_terminal: any string up to MaxNameLen.
NameStrings == UNION {[1..k -> NameChars] : k \in 0..MaxNameLen}

InitNames ==
    /\ server = {}
    /\ installed = Tools
    /\ last = NoDone
    /\ ScriptIdle /\ RaceIdle /\ UIIdle

\* session_name = f"{MICRO_TERM_PREFIX}{name}" for two names, and
\* list_micro_terminals on a server that holds the two sessions.
Address(n, m) ==
    LET idn == SessionName(n)
        idm == SessionName(m)
        reply == IF idn = idm THEN <<idn>> ELSE <<idn, idm>>
    IN  /\ addr' = [applied |-> TRUE, n |-> n, m |-> m, idn |-> idn, idm |-> idm,
                    back |-> SelectNames(<<idn>>),
                    reply |-> reply,
                    listed |-> list_micro_terminals({idn, idm}, installed, reply, "none")]
        /\ UNCHANGED <<server, installed, last, script, results, server0,
                       raceVars, uiVars>>

NextNames == \E n \in NameStrings, m \in NameStrings : Address(n, m)

SpecNames == InitNames /\ [][NextNames]_vars

\* C17: the prefix taken off the identifier of a name gives the name back, two
\* names with one identifier are one name, and the names list() returns for
\* the sessions created for n and m are exactly n and m.
C17_RoundTrip ==
    addr.applied
        => /\ addr.back = <<addr.n>>
           /\ addr.idn = addr.idm => addr.n = addr.m
           /\ addr.listed = (IF addr.n = addr.m THEN <<addr.n>> ELSE <<addr.n, addr.m>>)

(***************************************************************************)
(* Claims checked under Spec: the order of create's checks                 *)
(***************************************************************************)
NeedsTarget == last.call.vm_type \in {VM_DOCKER, VM_SSH}

BackendToolMissing ==
    \/ last.call.vm_type = VM_DOCKER /\ ~_get_docker_path(installed)
    \/ last.call.vm_type = VM_SSH /\ ~_get_ssh_path(installed)

\* C18: create reports the first failure, in the order tmux missing,
\* unknown vm_type, session exists, target missing, backend tool missing,
\* new-session failed; new-session is invoked only when none of the first
\* five holds.
C18_Order ==
    last.call.op = "create"
        => /\ IF ~_get_tmux_path(installed)
              THEN ~last.ok /\ last.kind = "ToolMissing" /\ last.calls = << >>
              ELSE IF last.call.vm_type \notin VM_TYPES
              THEN ~last.ok /\ last.kind = "UnsupportedBackend" /\ last.calls = << >>
              ELSE IF ~ExistenceCheckNegative
              THEN ~last.ok /\ last.kind = "AlreadyExists"
                       /\ last.calls = <<"has-session">>
              ELSE IF NeedsTarget /\ last.call.vm_target = << >>
              THEN ~last.ok /\ last.kind = "MissingTarget"
                       /\ last.calls = <<"has-session">>
              ELSE IF BackendToolMissing
              THEN ~last.ok /\ last.kind = "ToolMissing"
                       /\ last.calls = <<"has-session">>
              ELSE /\ last.calls = <<"has-session", "new-session">>
                   /\ last.kind \in {"Created", "CreateFailed", "Unexpected"}
                   /\ last.ok <=> last.kind = "Created"
           /\ ~last.ok => server = last.pre

\* The session exists, the docker target is missing and docker is not
\* installed: the failure reported is the first of the three.
C18_Witness ==
    /\ last.call.op = "create" /\ _get_tmux_path(installed)
    /\ last.call.vm_type = VM_DOCKER /\ last.call.vm_target = << >>
    /\ ~_get_docker_path(installed)
    /\ SessionName(last.call.name) \in last.pre
    /\ last.kind = "AlreadyExists"

(***************************************************************************)
(* Claims checked under SpecScript: the loop Absent, Running, Absent       *)
(***************************************************************************)
\* C19: once n was created and then destroyed, whatever else was created
\* meanwhile, n is absent: attach(n), which checks that n exists, fails with
\* NotFound, and create(n) succeeds again and does not report AlreadyExists.
C19_LoopRepeats ==
    \A n \in Names, m \in Names :
        (script = Again(n, m) /\ n # m /\ Ran(3) /\ results[1].ok /\ results[3].ok)
        => /\ SessionName(n) \notin results[3].post
           /\ Ran(4) => (~results[4].ok /\ results[4].kind = "NotFound")
           /\ Ran(5) => (results[5].ok /\ SessionName(n) \in server)

(***************************************************************************)
(* Claims checked under Spec: exact addressing                             *)
(***************************************************************************)
\* C20: an operation on name n acts on and looks at no session but the one
\* named MICRO_TERM_PREFIX followed by n: destroy(n) and send(n, cmd) reach no
\* other session and every other session runs on, create(n) reports
\* AlreadyExists only when that session is on the server, and attach(n)
\* succeeds only when it is.
C20_ExactAddressing ==
    LET id == SessionName(last.call.name)
    IN  /\ last.call.op \in {"destroy", "send"}
               => (last.hit \subseteq {id} /\ (last.pre \ {id}) \subseteq last.post)
        /\ (last.call.op = "create" /\ last.kind = "AlreadyExists") => id \in last.pre
        /\ (last.call.op = "attach" /\ last.ok) => id \in last.pre

====
